---- MODULE Spec2Model ----
(***************************************************************************)
(* A model of mogptk's parameter store (model.py), the MOSM estimation and *)
(* cross-parameter derivation (mosm.py) and the data set container         *)
(* (dataset.py).                                                           *)
(*                                                                         *)
(* numpy's float64 values are modelled exactly: a number is a record       *)
(*     [n, d, u, r]   standing for   (n / d) * (2*pi)^u * sqrt(r)          *)
(* in lowest terms with r square-free, and d = 0 for the IEEE specials:    *)
(* n = 0 is NaN, n = 1 is +Infinity, n = -1 is -Infinity.  Rounding is not *)
(* modelled; division by zero, NaN propagation and NaN comparison are.     *)
(***************************************************************************)
EXTENDS Integers, Sequences, FiniteSets, TLC

VARIABLES params, fixed_params, fix_log, call, ret, nops, model, prev, channels,
          files

vars == <<params, fixed_params, fix_log, call, ret, nops, model, prev, channels,
          files>>

----------------------------------------------------------------------------
(* Bounds of the exploration. *)

\* largest entry of a variance or mean array drawn as an input
MaxVal == 2
\* number of calls made on a model in the specification Spec
MaxOps == 2
\* number of fix_params / unfix_params / build calls in the specification
\* SpecFix
MaxFixOps == 3
\* largest number of samples of a channel drawn as an input of _to_kernel
MaxLen == 3
\* largest number of channels a DataSet grows to in the specification
\* SpecData
MaxChannels == 3
\* number of calls made on a DataSet in the specification SpecData
MaxDataOps == 3

----------------------------------------------------------------------------
(* The model instance: Q components over a data set of two channels with   *)
(* two input dimensions each.                                              *)

Q == 2
Comps == 0 .. (Q - 1)
Chans == {0, 1}
Dims == {0, 1}

\* the names a mixture component holds, and the name the noise entry holds
CompKeys == {"magnitude", "mean", "variance", "delay", "phase"}
NoiseKeys == {"noise"}
VecKeys == {"magnitude", "phase", "noise"}

----------------------------------------------------------------------------
(* float64 arithmetic *)

Abs(x) == IF x < 0 THEN -x ELSE x
Sgn(x) == IF x < 0 THEN -1 ELSE IF x = 0 THEN 0 ELSE 1

RECURSIVE Gcd(_, _)
Gcd(a, b) == IF b = 0 THEN a ELSE Gcd(b, a % b)

\* the largest k with k*k dividing x (x >= 1)
SqPart(x) == CHOOSE k \in 1 .. x :
                /\ x % (k * k) = 0
                /\ \A j \in (k + 1) .. x : x % (j * j) # 0

NaN == [n |-> 0, d |-> 0, u |-> 0, r |-> 1]
PosInf == [n |-> 1, d |-> 0, u |-> 0, r |-> 1]
NegInf == [n |-> -1, d |-> 0, u |-> 0, r |-> 1]
Zero == [n |-> 0, d |-> 1, u |-> 0, r |-> 1]
\* a sum of two values of different irrational kind: not representable here
Unrep == [n |-> 0, d |-> 0, u |-> 0, r |-> 0]

IsNaN(x) == x.d = 0 /\ x.n = 0
IsInf(x) == x.d = 0 /\ x.n # 0
IsFinite(x) == x.d > 0
IsZero(x) == x.d > 0 /\ x.n = 0

\* (n / d) * (2 pi)^u * sqrt(r) in normal form, for d > 0 and r >= 1
Norm(n, d, u, r) ==
    IF n = 0 THEN Zero
    ELSE LET s == IF r = 1 THEN 1 ELSE SqPart(r)
             n1 == n * s
             g == Gcd(Abs(n1), d)
         IN  [n |-> n1 \div g, d |-> d \div g, u |-> u, r |-> r \div (s * s)]

Rat(n, d) == Norm(n, d, 0, 1)
Num(k) == Rat(k, 1)
One == Num(1)
TwoPi == Norm(1, 1, 1, 1)

Neg(x) == [x EXCEPT !.n = -x.n]

MulV(x, y) ==
    IF IsNaN(x) \/ IsNaN(y) THEN NaN
    ELSE IF IsInf(x) \/ IsInf(y)
         THEN IF IsZero(x) \/ IsZero(y) THEN NaN
              ELSE IF Sgn(x.n) * Sgn(y.n) > 0 THEN PosInf ELSE NegInf
         ELSE Norm(x.n * y.n, x.d * y.d, x.u + y.u, x.r * y.r)

\* 1 / x for a finite x # 0
Recip(x) == Norm(Sgn(x.n) * x.d, Abs(x.n) * x.r, -x.u, x.r)

\* numpy's true division: x / 0 is +-Infinity, 0 / 0 is NaN, no exception
DivV(x, y) ==
    IF IsNaN(x) \/ IsNaN(y) THEN NaN
    ELSE IF IsInf(y) THEN (IF IsInf(x) THEN NaN ELSE Zero)
    ELSE IF IsZero(y)
         THEN IF IsZero(x) THEN NaN
              ELSE IF x.n > 0 THEN PosInf ELSE NegInf
    ELSE IF IsInf(x) THEN (IF Sgn(x.n) * Sgn(y.n) > 0 THEN PosInf ELSE NegInf)
    ELSE MulV(x, Recip(y))

AddV(x, y) ==
    IF IsNaN(x) \/ IsNaN(y) THEN NaN
    ELSE IF IsInf(x) /\ IsInf(y) THEN (IF x.n = y.n THEN x ELSE NaN)
    ELSE IF IsInf(x) THEN x
    ELSE IF IsInf(y) THEN y
    ELSE IF IsZero(x) THEN y
    ELSE IF IsZero(y) THEN x
    ELSE IF x.u = y.u /\ x.r = y.r
         THEN Norm(x.n * y.d + y.n * x.d, x.d * y.d, x.u, x.r)
         ELSE Unrep

\* The operators applied to their arguments' values (each argument is
\* evaluated once).
Mul(x, y) == CHOOSE z \in {MulV(a, b) : a \in {x}, b \in {y}} : TRUE
Div(x, y) == CHOOSE z \in {DivV(a, b) : a \in {x}, b \in {y}} : TRUE
Add(x, y) == CHOOSE z \in {AddV(a, b) : a \in {x}, b \in {y}} : TRUE
Sub(x, y) == CHOOSE z \in {AddV(a, Neg(b)) : a \in {x}, b \in {y}} : TRUE

\* numpy.sqrt: NaN for a negative argument
SqrtV(x) ==
    IF IsNaN(x) THEN NaN
    ELSE IF IsInf(x) THEN (IF x.n > 0 THEN PosInf ELSE NaN)
    ELSE IF IsZero(x) THEN Zero
    ELSE IF x.n < 0 THEN NaN
    ELSE IF x.r = 1 /\ x.u % 2 = 0
         THEN Norm(1, x.d, x.u \div 2, x.n * x.d)
         ELSE Unrep

Sqrt(x) == CHOOSE z \in {SqrtV(a) : a \in {x}} : TRUE

\* float == float: a NaN equals nothing, itself included
FEq(x, y) == ~IsNaN(x) /\ ~IsNaN(y) /\ x = y

RECURSIVE SumOver(_, _)
\* the sum of f[k] over the finite set S of integers, in increasing order
SumOver(f, S) ==
    IF S = {} THEN Zero
    ELSE LET k == CHOOSE m \in S : \A o \in S : o <= m
         IN  Add(SumOver(f, S \ {k}), f[k])

\* w * exp(e), kept in closed form: [coef |-> w, exparg |-> e]; exp(0) = 1,
\* exp(-inf) = 0, exp(+inf) = +inf, exp(NaN) = NaN
TimesExpV(w, e) ==
    LET plain(c) == [coef |-> c, exparg |-> Zero]
    IN  IF IsNaN(w) \/ IsNaN(e) THEN plain(NaN)
        ELSE IF IsInf(e) THEN plain(MulV(w, IF e.n > 0 THEN PosInf ELSE Zero))
        ELSE IF IsZero(w) \/ IsInf(w) THEN plain(w)
        ELSE [coef |-> w, exparg |-> e]

TimesExp(w, e) == CHOOSE z \in {TimesExpV(a, b) : a \in {w}, b \in {e}} : TRUE

MagIsNaN(m) == IsNaN(m.coef)
MagEq(a, b) == ~MagIsNaN(a) /\ ~MagIsNaN(b) /\ a = b

----------------------------------------------------------------------------
(* The parameter store.  params[q] for q < Q holds the five arrays of      *)
(* mixture component q: magnitude[c] and phase[c] per channel c, and       *)
(* mean[n][c], variance[n][c], delay[n][c] per input dimension n and       *)
(* channel c (numpy shape (input_dims, output_dims)).  params[Q] holds the *)
(* noise vector.                                                           *)

Vals == 0 .. MaxVal
MagVals == {1, 2}
PhaseVals == {0, 1}

Vec(f) == [c \in Chans |-> Num(f[c])]
ConstVec(v) == [c \in Chans |-> Num(v)]
ConstMat(v) == [n \in Dims |-> [c \in Chans |-> Num(v)]]
\* the array that is a everywhere but b at dimension hn, channel hc
HotMat(a, b, hn, hc) ==
    [n \in Dims |-> [c \in Chans |-> IF n = hn /\ c = hc THEN Num(b) ELSE Num(a)]]
MatFam(V) == {HotMat(a, b, hn, hc) : a \in V, b \in V, hn \in Dims, hc \in Chans}
VecFam(V) == {Vec(f) : f \in [Chans -> V]}

\* an array with its channels in reverse order
MirrorVec(v) == [c \in Chans |-> v[1 - c]]
MirrorMat(m) == [n \in Dims |-> MirrorVec(m[n])]

Component(w, mu, var, ph, dl) ==
    [magnitude |-> w, mean |-> mu, variance |-> var, phase |-> ph, delay |-> dl]

\* the store a constructor leaves: Q components and the noise entry
Store(comp, noise) ==
    [q \in 0 .. Q |-> IF q < Q THEN comp[q] ELSE [noise |-> noise]]

----------------------------------------------------------------------------
(* The data set: channels[c] holds, for channel c, the input values X[n][k] *)
(* of sample k in dimension n, the outputs Y[k] and the mask (TRUE for a    *)
(* valid sample), all as the kernel sees them (the transformed values).     *)

\* the outputs of the two channels
ChannelY == [c \in Chans |-> IF c = 0 THEN <<1, -1, 1>> ELSE <<0, 2, 4, 2>>]

\* a channel whose samples can be told apart by their values
Channel(c, mask, base) ==
    [X    |-> [n \in Dims |-> [k \in 1 .. Len(mask) |-> base + 100 * c + 10 * k + n]],
     Y    |-> [k \in 1 .. Len(mask) |-> 0 - (base + 100 * c + 10 * k)],
     mask |-> mask]

\* the data set of the model instance: every sample valid
TheChannels ==
    [c \in Chans |->
        [Channel(c, [k \in 1 .. Len(ChannelY[c]) |-> TRUE], 0) EXCEPT !.Y = ChannelY[c]]]

RECURSIVE Select(_, _)
\* a[mask]: the entries of a at which mask is True, in order
Select(a, mask) ==
    IF a = <<>> THEN <<>>
    ELSE (IF Head(mask) THEN <<Head(a)>> ELSE <<>>) \o Select(Tail(a), Tail(mask))

RECURSIVE Concatenate(_, _)
\* np.concatenate over the channels from c on
Concatenate(parts, c) ==
    IF c \notin DOMAIN parts THEN <<>> ELSE parts[c] \o Concatenate(parts, c + 1)

\* np.array([x[channel.mask].transformed for x in channel.X]).T: one row per
\* valid sample, one column per input dimension
ChannelRows(ch) ==
    LET cols == [n \in Dims |-> Select(ch.X[n], ch.mask)]
    IN  [k \in 1 .. Len(cols[0]) |-> [n \in Dims |-> cols[n][k]]]

\* channel.Y with no mask applied
ChannelOutputsUnmasked(ch) == [k \in 1 .. Len(ch.Y) |-> <<ch.Y[k]>>]

\* channel.Y[channel.mask].transformed, each value a row of its own
ChannelOutputs(ch) ==
    LET y == Select(ch.Y, ch.mask)
    IN  [k \in 1 .. Len(y) |-> <<y[k]>>]

\* the outcome of _to_kernel on the channels chs: rows <<channel, x_0, x_1>>
\* of X and rows <<y>> of Y
ToKernel(chs) ==
    LET x == [c \in Chans |-> ChannelRows(chs[c])]
        tagged == [c \in Chans |->
                      [k \in 1 .. Len(x[c]) |-> <<c>> \o [n \in 1 .. Cardinality(Dims) |->
                                                           x[c][k][n - 1]]]]
        y == [c \in Chans |-> ChannelOutputs(chs[c])]
    IN  [kind |-> "kernel", X |-> Concatenate(tagged, 0), Y |-> Concatenate(y, 0)]

to_kernel ==
    /\ call' = [op |-> "_to_kernel"]
    /\ ret' = ToKernel(channels)
    /\ UNCHANGED <<params, fixed_params, fix_log, model>>

----------------------------------------------------------------------------
(* MOSM.get_cross_params *)

Col(mat, c) == [n \in Dims |-> mat[n][c]]
Dot(a, b) == SumOver([n \in Dims |-> Mul(a[n], b[n])], Dims)

\* sv = var_i + var_j
SumVar(p, q, i, j) ==
    [n \in Dims |-> Add(p[q].variance[n][i], p[q].variance[n][j])]

\* the factor 2 left out
CrossCovarianceNoDouble(p, q, i, j) ==
    [n \in Dims |-> Div(Mul(p[q].variance[n][i], p[q].variance[n][j]),
                        SumVar(p, q, i, j)[n])]

\* 2 * (var_i * var_j) / sv
CrossCovariance(p, q, i, j) ==
    LET var_i == Col(p[q].variance, i)
        var_j == Col(p[q].variance, j)
        sv == SumVar(p, q, i, j)
    IN  [n \in Dims |-> Div(Mul(Num(2), Mul(var_i[n], var_j[n])), sv[n])]

\* (var_i.dot(mu_j) + var_j.dot(mu_i)) / sv
CrossMean(p, q, i, j) ==
    LET var_i == Col(p[q].variance, i)
        var_j == Col(p[q].variance, j)
        mu_i == Col(p[q].mean, i)
        mu_j == Col(p[q].mean, j)
        sv == SumVar(p, q, i, j)
        cross_mean_num == Add(Dot(var_i, mu_j), Dot(var_j, mu_i))
    IN  [n \in Dims |-> Div(cross_mean_num, sv[n])]

\* the first channel's weight used twice
CrossMagnitudeFirstWeight(p, q, i, j) ==
    TimesExp(Mul(p[q].magnitude[i], p[q].magnitude[i]), Zero)

\* the exponent taken of the sum of the two means
CrossMagnitudeMeanSum(p, q, i, j) ==
    LET mu_i == Col(p[q].mean, i)
        mu_j == Col(p[q].mean, j)
        sv == SumVar(p, q, i, j)
        tot == [n \in Dims |-> Add(mu_i[n], mu_j[n])]
        exp_term == Mul(Rat(-1, 4),
                        SumOver([n \in Dims |-> Div(Mul(tot[n], tot[n]), sv[n])], Dims))
    IN  TimesExp(Mul(p[q].magnitude[i], p[q].magnitude[j]), exp_term)

\* w_i * w_j * exp(-1/4 * ((mu_i - mu_j)**2 / sv).sum())
CrossMagnitude(p, q, i, j) ==
    LET mu_i == Col(p[q].mean, i)
        mu_j == Col(p[q].mean, j)
        w_i == p[q].magnitude[i]
        w_j == p[q].magnitude[j]
        sv == SumVar(p, q, i, j)
        diff == [n \in Dims |-> Sub(mu_i[n], mu_j[n])]
        exp_term == Mul(Rat(-1, 4),
                        SumOver([n \in Dims |-> Div(Mul(diff[n], diff[n]), sv[n])], Dims))
    IN  TimesExp(Mul(w_i, w_j), exp_term)

\* the difference taken the other way round
CrossPhaseSwapped(p, q, i, j) == Sub(p[q].phase[j], p[q].phase[i])

\* np.subtract.outer(phase_q, phase_q)[i, j]
CrossPhase(p, q, i, j) == Sub(p[q].phase[i], p[q].phase[j])

\* np.subtract.outer(delay_n_q, delay_n_q)[i, j] for every n
CrossDelay(p, q, i, j) ==
    [n \in Dims |-> Sub(p[q].delay[n][i], p[q].delay[n][j])]

\* the five arrays, each (q, i, j) derived once
CrossTable(p) ==
    [q \in Comps, i \in Chans, j \in Chans |->
        [covariance |-> CrossCovariance(p, q, i, j),
         mean       |-> CrossMean(p, q, i, j),
         magnitude  |-> CrossMagnitude(p, q, i, j),
         delay      |-> CrossDelay(p, q, i, j),
         phase      |-> CrossPhase(p, q, i, j)]]

CrossTensor(t) ==
    [covariance |-> [i \in Chans, j \in Chans, n \in Dims, q \in Comps |->
                        t[q, i, j].covariance[n]],
     mean       |-> [i \in Chans, j \in Chans, n \in Dims, q \in Comps |->
                        t[q, i, j].mean[n]],
     magnitude  |-> [i \in Chans, j \in Chans, q \in Comps |-> t[q, i, j].magnitude],
     delay      |-> [i \in Chans, j \in Chans, n \in Dims, q \in Comps |->
                        t[q, i, j].delay[n]],
     phase      |-> [i \in Chans, j \in Chans, q \in Comps |-> t[q, i, j].phase]]

\* the tensor of a store of ones, whatever the store holds
GetCrossParamsStale(p) ==
    CrossTensor(CrossTable(
        Store([q \in Comps |-> Component(ConstVec(1), ConstMat(1), ConstMat(1),
                                         ConstVec(1), ConstMat(1))],
              ConstVec(1))))

GetCrossParams(p) == CHOOSE x \in {CrossTensor(t) : t \in {CrossTable(p)}} : TRUE

\* the store with every magnitude doubled
AfterDeriveRescaled(p) ==
    [q \in DOMAIN p |->
        IF q < Q
        THEN [p[q] EXCEPT !.magnitude = [c \in Chans |-> Mul(p[q].magnitude[c], Num(2))]]
        ELSE p[q]]

\* the store a call of get_cross_params leaves: it assigns to its local
\* cross_params only
AfterDerive(p) == p

NoCall == [op |-> "none"]
NoFix == [key |-> "none", before |-> <<>>, round |-> FALSE]
Ok == [kind |-> "ok"]
Raise(e) == [kind |-> "raise", exc |-> e]
NoRet == [kind |-> "none"]
\* self.model = None
NoModel == [built |-> FALSE]

\* a file name is the sequence of its parts, the extension last
Saved(stem) == <<stem, ".mogptk">>
DiskNames == {Saved("m"), Saved("n")}
NoFile == [kind |-> "absent"]
OldFile == [kind |-> "old"]
\* the directory with none of the files in it
NoFiles == [f \in DiskNames |-> NoFile]

get_cross_params ==
    /\ call' = [op |-> "get_cross_params"]
    /\ ret' = [kind |-> "cross", value |-> GetCrossParams(params)]
    /\ params' = AfterDerive(params)
    /\ UNCHANGED <<fixed_params, fix_log, model>>

----------------------------------------------------------------------------
(* The derivation as a function of the store.  Covariance, mean and        *)
(* magnitude of the result read only variance, mean and magnitude of the   *)
(* store, and phase and delay only phase and delay, so the stores drawn    *)
(* vary one group with the other held fixed.  Component 1 is component 0   *)
(* with its channels in reverse order.                                     *)

CrossStore(w, mu, var, ph, dl) ==
    Store([q \in Comps |->
              IF q = 0
              THEN Component(w, mu, var, ph, dl)
              ELSE Component(MirrorVec(w), MirrorMat(mu), MirrorMat(var),
                             MirrorVec(ph), MirrorMat(dl))],
          ConstVec(1))

InitCross ==
    /\ \/ \E var \in MatFam(Vals), mu \in MatFam(Vals), w \in VecFam(MagVals) :
             params = CrossStore(w, mu, var, Vec([c \in Chans |-> c]),
                                 HotMat(0, 1, 1, 0))
       \/ \E ph \in VecFam(PhaseVals), dl \in MatFam(PhaseVals) :
             params = CrossStore(Vec([c \in Chans |-> c + 1]), HotMat(0, 1, 0, 1),
                                 HotMat(1, 2, 1, 1), ph, dl)
    /\ fixed_params = <<>>
    /\ fix_log = NoFix
    /\ call = NoCall
    /\ prev = NoCall
    /\ model = NoModel
    /\ channels = TheChannels
    /\ files = NoFiles
    /\ ret = NoRet
    /\ nops = 0

NextCross == get_cross_params /\ UNCHANGED <<nops, prev, channels, files>>

SpecCross == InitCross /\ [][NextCross]_vars

----------------------------------------------------------------------------
(* Properties of get_cross_params, stated on the tensor a call returned    *)
(* and the store it read (the call leaves the store unchanged).            *)

Returned == ret.kind = "cross"
T == ret.value
Var(q, c, n) == params[q].variance[n][c]
Mean(q, c, n) == params[q].mean[n][c]
SvNonZero(q, i, j, n) == ~IsZero(Add(Var(q, i, n), Var(q, j, n)))
ZeroVarPair(q, i, j) == \A n \in Dims : IsZero(Var(q, i, n)) /\ IsZero(Var(q, j, n))

TensorDefined(t) ==
    /\ \A i \in Chans, j \in Chans, n \in Dims, q \in Comps :
          /\ IsFinite(t.covariance[i, j, n, q])
          /\ IsFinite(t.mean[i, j, n, q])
          /\ IsFinite(t.delay[i, j, n, q])
    /\ \A i \in Chans, j \in Chans, q \in Comps :
          /\ IsFinite(t.magnitude[i, j, q].coef)
          /\ IsFinite(t.phase[i, j, q])

\* C1: wherever variance[q,i,n] + variance[q,j,n] # 0, the returned cross mean is
\* (variance[q,i,n]*mean[q,j,n] + variance[q,j,n]*mean[q,i,n]) / (their sum),
\* dimension by dimension.
C1_CrossMeanElementwise ==
    Returned =>
        \A q \in Comps, i \in Chans, j \in Chans, n \in Dims :
            SvNonZero(q, i, j, n) =>
                FEq(T.mean[i, j, n, q],
                    Div(Add(Mul(Var(q, i, n), Mean(q, j, n)),
                            Mul(Var(q, j, n), Mean(q, i, n))),
                        Add(Var(q, i, n), Var(q, j, n))))

C3_DegenerateVarianceGuard ==
    Returned =>
        \A q \in Comps, i \in Chans, j \in Chans :
            ZeroVarPair(q, i, j) =>
                /\ \A n \in Dims :
                      /\ FEq(T.covariance[i, j, n, q], Zero)
                      /\ FEq(T.mean[i, j, n, q],
                             Div(Add(Mean(q, i, n), Mean(q, j, n)), Num(2)))
                /\ TensorDefined(T)

\* C4: on the diagonal the returned covariance and mean are the channel's own
\* variance and mean, and the returned phase and delay are 0.
C4_DiagonalIdentity ==
    Returned =>
        \A q \in Comps, i \in Chans :
            /\ FEq(T.phase[i, i, q], Zero)
            /\ \A n \in Dims :
                  /\ FEq(T.covariance[i, i, n, q], Var(q, i, n))
                  /\ FEq(T.mean[i, i, n, q], Mean(q, i, n))
                  /\ FEq(T.delay[i, i, n, q], Zero)

C6_CrossCovariance ==
    Returned =>
        \A q \in Comps, i \in Chans, j \in Chans, n \in Dims :
            SvNonZero(q, i, j, n) =>
                FEq(T.covariance[i, j, n, q],
                    Div(Mul(Num(2), Mul(Var(q, i, n), Var(q, j, n))),
                        Add(Var(q, i, n), Var(q, j, n))))

\* a tensor was returned for a store with variances 1 and 2 in one dimension
\* of a component, where the cross covariance is 4/3
C6_Witness ==
    /\ Returned
    /\ \E q \in Comps, n \in Dims :
          /\ Var(q, 0, n) = Num(1)
          /\ Var(q, 1, n) = Num(2)
          /\ T.covariance[0, 1, n, q] = Rat(4, 3)
          /\ T.covariance[0, 0, n, q] = Num(1)

\* every number of a returned tensor is one this arithmetic represents
RepresentableTensor ==
    Returned =>
        /\ \A i \in Chans, j \in Chans, n \in Dims, q \in Comps :
              /\ T.covariance[i, j, n, q] # Unrep
              /\ T.mean[i, j, n, q] # Unrep
              /\ T.delay[i, j, n, q] # Unrep
        /\ \A i \in Chans, j \in Chans, q \in Comps :
              /\ T.magnitude[i, j, q].coef # Unrep
              /\ T.magnitude[i, j, q].exparg # Unrep
              /\ T.phase[i, j, q] # Unrep

----------------------------------------------------------------------------
(* model.set_param *)

KeyNames == CompKeys \cup NoiseKeys
\* the names a caller may pass: the six parameter names and one that is none
CallKeys == KeyNames \cup {"lengthscale"}

\* len(self.params)
Len_params(p) == Cardinality(DOMAIN p)

\* the range test q < 0 or len(self.params) <= q, with the noise entry left out
BadComponentNoNoise(p, q) == q < 0 \/ Len_params(p) - 1 <= q

\* q < 0 or len(self.params) <= q
BadComponent(p, q) == q < 0 \/ Len_params(p) <= q

\* self.params[q][key] = val
Assign(p, q, key, val) ==
    [p EXCEPT ![q] = [k \in DOMAIN p[q] \cup {key} |->
                         IF k = key THEN val ELSE p[q][k]]]

\* the assignment made whatever the name
SetParamAnyName(p, q, key, val) ==
    IF BadComponent(p, q)
    THEN [ret |-> Raise("component does not exist"), params |-> p]
    ELSE [ret |-> Ok, params |-> Assign(p, q, key, val)]

\* the outcome of set_param(q, key, val) on store p: what it raises, if
\* anything, and the store it leaves
SetParam(p, q, key, val) ==
    IF BadComponent(p, q)
    THEN [ret |-> Raise("component does not exist"), params |-> p]
    ELSE IF key \notin DOMAIN p[q]
    THEN [ret |-> Raise("parameter name does not exist"), params |-> p]
    ELSE [ret |-> Ok, params |-> Assign(p, q, key, val)]

\* the value a caller stores under a name: an array of the name's shape
\* that differs from channel to channel
SetVals(key) ==
    IF key \in VecKeys \/ key \notin KeyNames
    THEN {Vec([c \in Chans |-> c + 1])}
    ELSE {HotMat(0, MaxVal, 1, 0)}

set_param ==
    \E q \in -1 .. (Q + 1), key \in CallKeys :
        \E val \in SetVals(key) :
            LET r == SetParam(params, q, key, val)
            IN  /\ call' = [op |-> "set_param", q |-> q, key |-> key, val |-> val]
                /\ ret' = r.ret
                /\ params' = r.params
                /\ UNCHANGED <<fixed_params, fix_log, model>>

----------------------------------------------------------------------------
(* model.get_params, model._get_param_across *)

\* return self.params
GetParams(p) == p

\* np.array([self.params[q][name] for q in range(self.Q)])
GetParamAcross(p, name) ==
    IF \E q \in Comps : name \notin DOMAIN p[q]
    THEN Raise("KeyError")
    ELSE [kind |-> "across", value |-> [q \in Comps |-> p[q][name]]]

get_params ==
    /\ call' = [op |-> "get_params"]
    /\ ret' = [kind |-> "params", value |-> GetParams(params)]
    /\ UNCHANGED <<params, fixed_params, fix_log, model>>

get_param_across ==
    \E name \in CallKeys \cup {"mixture_means"} :
        /\ call' = [op |-> "_get_param_across", name |-> name]
        /\ ret' = GetParamAcross(params, name)
        /\ UNCHANGED <<params, fixed_params, fix_log, model>>

----------------------------------------------------------------------------
(* MOSM.estimate_params.  The estimators (Data.get_bnse_estimation behind  *)
(* DataSet.get_bnse_estimation, and _estimate_from_sm) either raise or     *)
(* return Q peaks for every channel.                                       *)

MeanOver(f, S) == Div(SumOver(f, S), Num(Cardinality(S)))

\* the squared deviations summed and divided by one less than their number
VarOfUnbiased(y) ==
    LET idx == 1 .. Len(y)
        mu == MeanOver([k \in idx |-> Num(y[k])], idx)
    IN  Div(SumOver([k \in idx |-> Mul(Sub(Num(y[k]), mu), Sub(Num(y[k]), mu))], idx),
            Num(Len(y) - 1))

\* numpy's ndarray.var(): the mean squared deviation from the mean
VarOf(y) ==
    LET idx == 1 .. Len(y)
        mu == MeanOver([k \in idx |-> Num(y[k])], idx)
    IN  MeanOver([k \in idx |-> Mul(Sub(Num(y[k]), mu), Sub(Num(y[k]), mu))], idx)

EstAmps == {[c \in Chans |-> 1], [c \in Chans |-> 1 + 2 * c], [c \in Chans |-> 0]}
EstFreqs == {0, 1}

\* amplitudes, means, variances indexed [channel][dimension][peak]
BnseResult(a, f) ==
    [amplitudes |-> [c \in Chans |-> [n \in Dims |-> [q \in Comps |->
                        Num(a[c] * (n + 1))]]],
     means      |-> [c \in Chans |-> [n \in Dims |-> [q \in Comps |->
                        Num(f + q + c)]]],
     variances  |-> [c \in Chans |-> [n \in Dims |-> [q \in Comps |->
                        Num(1 + n + c)]]]]

\* per peak: weight, mean, scale indexed [dimension][channel]
SmResult(a, f) ==
    [q \in Comps |->
        [weight |-> [n \in Dims |-> [c \in Chans |-> Num(a[c] * (n + 1))]],
         mean   |-> [n \in Dims |-> [c \in Chans |-> Num(f + q + c)]],
         scale  |-> [n \in Dims |-> [c \in Chans |-> Num(1 + n + c)]]]]

Modes == {"BNSE", "SM", "LS"}
EstimatorRaises == [raises |-> TRUE]
EstimatorOutcomes(mode) ==
    IF mode = "BNSE"
    THEN {EstimatorRaises} \cup
         {[raises |-> FALSE, result |-> BnseResult(a, f)] : a \in EstAmps, f \in EstFreqs}
    ELSE IF mode = "SM"
    THEN {EstimatorRaises} \cup
         {[raises |-> FALSE, result |-> SmResult(a, f)] : a \in EstAmps, f \in EstFreqs}
    ELSE {EstimatorRaises}

\* the normalization applied a second time to its own result
NormalizeTwice(magnitude) ==
    LET m == MeanOver(magnitude, Chans)
        once == [c \in Chans |-> Sqrt(Div(magnitude[c], m))]
        m2 == MeanOver(once, Chans)
    IN  [c \in Chans |-> Sqrt(Div(once[c], m2))]

\* magnitude = np.sqrt(magnitude / magnitude.mean())
Normalize(magnitude) ==
    LET m == MeanOver(magnitude, Chans)
    IN  [c \in Chans |-> Sqrt(Div(magnitude[c], m))]

RECURSIVE BnseFrom(_, _, _)
\* the loop over q of the BNSE branch, from component q on
BnseFrom(p, est, q) ==
    IF q >= Q THEN [ret |-> Ok, params |-> p]
    ELSE LET magnitude == [c \in Chans |-> MeanOver(
                              [n \in Dims |-> est.amplitudes[c][n][q]], Dims)]
             mean == [n \in Dims |-> [c \in Chans |-> Mul(est.means[c][n][q], TwoPi)]]
             variance == [n \in Dims |-> [c \in Chans |->
                              Mul(est.variances[c][n][q], Num(2))]]
             r1 == SetParam(p, q, "magnitude", Normalize(magnitude))
             r2 == SetParam(r1.params, q, "mean", mean)
             r3 == SetParam(r2.params, q, "variance", variance)
         IN  IF r1.ret # Ok THEN r1
             ELSE IF r2.ret # Ok THEN r2
             ELSE IF r3.ret # Ok THEN r3
             ELSE BnseFrom(r3.params, est, q + 1)

RECURSIVE SmFrom(_, _, _)
\* the loop over q of the SM branch, from component q on: plain assignments
\* to self.params[q]
SmFrom(p, est, q) ==
    IF q >= Q THEN [ret |-> Ok, params |-> p]
    ELSE LET magnitude == [c \in Chans |-> MeanOver(
                              [n \in Dims |-> est[q].weight[n][c]], Dims)]
             variance == [n \in Dims |-> [c \in Chans |->
                              Mul(est[q].scale[n][c], Num(2))]]
             p1 == Assign(p, q, "magnitude", magnitude)
             p2 == Assign(p1, q, "mean", est[q].mean)
             p3 == Assign(p2, q, "variance", variance)
             p4 == Assign(p3, q, "magnitude", Normalize(p3[q].magnitude))
         IN  SmFrom(p4, est, q + 1)

\* noise[i] = channel.Y.var() / 30, stored with set_param(self.Q, 'noise', noise)
StoreNoise(p) ==
    SetParam(p, Q, "noise", [c \in Chans |-> Div(VarOf(ChannelY[c]), Num(30))])

\* the noise vector stored first, the components after it
EstimateParamsNoiseFirst(p, mode, est) ==
    LET r0 == StoreNoise(p)
    IN  IF mode \notin {"BNSE", "SM"}
        THEN [ret |-> Raise("possible modes are BNSE or SM"), params |-> r0.params]
        ELSE IF est.raises THEN [ret |-> Raise("estimator"), params |-> r0.params]
        ELSE IF mode = "BNSE" THEN BnseFrom(r0.params, est.result, 0)
        ELSE SmFrom(r0.params, est.result, 0)

\* the mode looked at only after the noise vector has been stored
EstimateParamsModeLast(p, mode, est) ==
    IF mode \notin {"BNSE", "SM"}
    THEN [ret |-> Raise("possible modes are BNSE or SM"), params |-> StoreNoise(p).params]
    ELSE IF est.raises THEN [ret |-> Raise("estimator"), params |-> p]
    ELSE LET r == IF mode = "BNSE" THEN BnseFrom(p, est.result, 0)
                  ELSE SmFrom(p, est.result, 0)
         IN  IF r.ret # Ok THEN r ELSE StoreNoise(r.params)

\* the outcome of estimate_params(mode) on store p, the estimator behaving as
\* est says
EstimateParams(p, mode, est) ==
    IF mode \notin {"BNSE", "SM"}
    THEN [ret |-> Raise("possible modes are BNSE or SM"), params |-> p]
    ELSE IF est.raises THEN [ret |-> Raise("estimator"), params |-> p]
    ELSE LET r == IF mode = "BNSE" THEN BnseFrom(p, est.result, 0)
                  ELSE SmFrom(p, est.result, 0)
         IN  IF r.ret # Ok THEN r ELSE StoreNoise(r.params)

estimate_params ==
    \E mode \in Modes :
        \E est \in EstimatorOutcomes(mode) :
            LET r == EstimateParams(params, mode, est)
            IN  /\ call' = [op |-> "estimate_params", mode |-> mode, est |-> est]
                /\ ret' = r.ret
                /\ params' = r.params
                /\ UNCHANGED <<fixed_params, fix_log, model>>

----------------------------------------------------------------------------
(* model.fix_params, model.unfix_params: self.fixed_params is a list.      *)
(* fix_log remembers the last fix_params call, the list it found, and      *)
(* whether the call that directly followed was unfix_params of that name.  *)

RECURSIVE RemoveAll(_, _)
\* every occurrence of key taken out of the list
RemoveAll(l, key) ==
    IF l = <<>> THEN <<>>
    ELSE IF Head(l) = key THEN RemoveAll(Tail(l), key)
    ELSE <<Head(l)>> \o RemoveAll(Tail(l), key)

RECURSIVE RemoveFirst(_, _)
\* list.remove: the first occurrence of key taken out of the list
RemoveFirst(l, key) ==
    IF l = <<>> THEN <<>>
    ELSE IF Head(l) = key THEN Tail(l)
    ELSE <<Head(l)>> \o RemoveFirst(Tail(l), key)

Names(l) == {l[k] : k \in 1 .. Len(l)}

fix_params ==
    \E key \in CallKeys :
        /\ call' = [op |-> "fix_params", key |-> key]
        /\ ret' = Ok
        /\ fix_log' = [key |-> key, before |-> fixed_params, round |-> FALSE]
        /\ fixed_params' = Append(fixed_params, key)
        /\ UNCHANGED <<params, model>>

unfix_params ==
    \E key \in CallKeys :
        /\ call' = [op |-> "unfix_params", key |-> key]
        /\ IF key \in Names(fixed_params)
           THEN /\ ret' = Ok
                /\ fixed_params' = RemoveFirst(fixed_params, key)
           ELSE /\ ret' = Raise("ValueError")
                /\ fixed_params' = fixed_params
        /\ fix_log' = IF call.op = "fix_params" /\ call.key = key
                      THEN [fix_log EXCEPT !.round = TRUE]
                      ELSE NoFix
        /\ UNCHANGED <<params, model>>

----------------------------------------------------------------------------
(* model.build.  The kernel is the sum MOSM.__init__ assembles: one        *)
(* MultiOutputSpectralMixture term per component and a Noise term after    *)
(* them, so self.model.kern has the attribute kernels.  A term carries the *)
(* parameters of its entry of the store.                                   *)

Terms == 0 .. Q

\* the parameters of kernel term t
TermKeys(t) == IF t < Q THEN CompKeys ELSE NoiseKeys

\* the model a build starts from: every parameter of every term trainable
NewModel ==
    [built |-> TRUE, trainable |-> [t \in Terms |-> [k \in TermKeys(t) |-> TRUE]]]

Kinds == {"full", "sparse", "sparse-variational"}
CallKinds == {"full", "sparse", "exact"}

\* getattr(kern, key).trainable = False
Untrain(m, t, key) == [m EXCEPT !.trainable[t][key] = FALSE]

RECURSIVE FixInTerms(_, _, _)
\* for kern in self.model.kern.kernels, from term t on
FixInTerms(m, key, t) ==
    IF t > Q THEN [ret |-> Ok, model |-> m]
    ELSE IF key \in TermKeys(t) THEN FixInTerms(Untrain(m, t, key), key, t + 1)
    ELSE [ret |-> Raise("parameter name does not exist"), model |-> m]

RECURSIVE FixAll(_, _)
\* for key in self.fixed_params
FixAll(m, l) ==
    IF l = <<>> THEN [ret |-> Ok, model |-> m]
    ELSE LET r == FixInTerms(m, Head(l), 0)
         IN  IF r.ret # Ok THEN r ELSE FixAll(r.model, Tail(l))

\* the outcome of build(kind) with the fixed names l on a model object m
Build(m, l, kind) ==
    IF kind \notin Kinds
    THEN [ret |-> Raise("model type does not exist"), model |-> m]
    ELSE FixAll(NewModel, l)

build ==
    \E kind \in CallKinds :
        LET r == Build(model, fixed_params, kind)
        IN  /\ call' = [op |-> "build", kind |-> kind]
            /\ ret' = r.ret
            /\ model' = r.model
            /\ UNCHANGED <<params, fixed_params, fix_log>>

----------------------------------------------------------------------------
(* model.predict, model.save, model.train.  The regression engine is       *)
(* outside the source: predict_f returns one mean and one variance for     *)
(* every input row, here the row's position, and the optimizer leaves      *)
(* every trainable parameter at a value of its choice.                     *)

\* the inputs of predict: the number of rows given for every channel
PredictInputs == {[c \in Chans |-> 1], [c \in Chans |-> 2 * c]}

RECURSIVE Offset(_, _)
\* the rows of X that precede those of channel c
Offset(X, c) == IF c = 0 THEN 0 ELSE Offset(X, c - 1) + X[c - 1]

\* the outcome of predict(X) on the model object m
Predict(m, X) ==
    IF ~m.built
    THEN Raise("build (and train) the model before doing predictions")
    ELSE LET with == {c \in Chans : X[c] # 0}
             seg(c, base) == [k \in 1 .. X[c] |-> base + Offset(X, c) + k]
         IN  [kind |-> "prediction",
              Y_mu  |-> [c \in with |-> seg(c, 0)],
              Y_var |-> [c \in with |-> seg(c, 100)]]

predict ==
    \E X \in PredictInputs :
        /\ call' = [op |-> "predict", X |-> X]
        /\ ret' = Predict(model, X)
        /\ UNCHANGED <<params, fixed_params, fix_log, model, files>>

\* the file names a caller passes to save
FileNames == {<<"m">>, <<"m", ".mogptk">>, <<"n">>}

\* filename.endswith(".mogptk")
EndsWithExt(filename) == filename[Len(filename)] = ".mogptk"

\* the model object with the attributes save attaches to it (the name and
\* the encoded data set are not part of the state modelled)
Tagged(m, p, l) ==
    [built |-> TRUE, trainable |-> m.trainable,
     mogptk_type |-> "MOSM", mogptk_Q |-> Q,
     mogptk_params |-> p, mogptk_fixed_params |-> l]

\* save that removes the old file before it looks at the model
SaveRemovesFirst(m, fs, p, l, filename) ==
    LET name == IF EndsWithExt(filename) THEN filename ELSE filename \o <<".mogptk">>
    IN  IF ~m.built
        THEN [ret |-> Raise("build (and train) the model before doing predictions"),
              model |-> m, files |-> [fs EXCEPT ![name] = NoFile]]
        ELSE [ret |-> Ok, model |-> Tagged(m, p, l),
              files |-> [fs EXCEPT ![name] = [kind |-> "saved",
                                              model |-> Tagged(m, p, l)]]]

\* the outcome of save(filename): os.remove of the old file, then the
\* Saver writes the tagged model
Save(m, fs, p, l, filename) ==
    IF ~m.built
    THEN [ret |-> Raise("build (and train) the model before doing predictions"),
          model |-> m, files |-> fs]
    ELSE LET name == IF EndsWithExt(filename) THEN filename
                     ELSE filename \o <<".mogptk">>
         IN  [ret |-> Ok, model |-> Tagged(m, p, l),
              files |-> [fs EXCEPT ![name] = [kind |-> "saved",
                                              model |-> Tagged(m, p, l)]]]

save ==
    \E filename \in FileNames :
        LET r == Save(model, files, params, fixed_params, filename)
        IN  /\ call' = [op |-> "save", filename |-> filename]
            /\ ret' = r.ret
            /\ model' = r.model
            /\ files' = r.files
            /\ UNCHANGED <<params, fixed_params, fix_log>>

\* the decimal numeral of a term index, and int() of it
Digits == <<"0", "1", "2">>
Str(t) == Digits[t + 1]
ToInt(d) == CHOOSE t \in 0 .. (Len(Digits) - 1) : Digits[t + 1] = d

\* the name the engine gives a model of a kind
ModelName(kind) ==
    IF kind = "full" THEN "GPR" ELSE IF kind = "sparse" THEN "SGPR" ELSE "SVGP"

\* the values the optimizer may leave everywhere
TrainVals == {3, 4}

\* self.model.read_trainables() after the optimizer has left value o: the
\* trainable parameters of the kernel terms by their path, and the
\* variance of the likelihood
ReadTrainables(m, kind, o) ==
    LET kern == {<<ModelName(kind), "kern", "kernels", Str(t), k>> :
                    t \in Terms, k \in CompKeys \cup NoiseKeys}
        on == {key \in kern : /\ key[5] \in TermKeys(ToInt(key[4]))
                              /\ m.trainable[ToInt(key[4])][key[5]]}
    IN  [key \in on \cup {<<ModelName(kind), "likelihood", "variance">>} |->
            IF Len(key) = 5 /\ key[5] \notin VecKeys THEN ConstMat(o) ELSE ConstVec(o)]

RECURSIVE UpdateFrom(_, _, _)
\* the loop of _update_params over the keys left
UpdateFrom(p, trainables, left) ==
    IF left = {} THEN p
    ELSE LET key == CHOOSE k \in left : TRUE
             names == key
             next == IF Len(names) = 5 /\ names[2] = "kern" /\ names[3] = "kernels"
                     THEN Assign(p, ToInt(names[4]), names[5], trainables[key])
                     ELSE p
         IN  UpdateFrom(next, trainables, left \ {key})

\* _update_params(trainables)
UpdateParams(p, trainables) == UpdateFrom(p, trainables, DOMAIN trainables)

\* the outcome of train(kind=kind), the optimizer leaving value o
Train(m, p, l, kind, o) ==
    LET r == Build(m, l, kind)
    IN  IF r.ret # Ok THEN [ret |-> r.ret, model |-> r.model, params |-> p]
        ELSE [ret |-> Ok, model |-> r.model,
              params |-> UpdateParams(p, ReadTrainables(r.model, kind, o))]

train ==
    \E kind \in CallKinds, o \in TrainVals :
        LET r == Train(model, params, fixed_params, kind, o)
        IN  /\ call' = [op |-> "train", kind |-> kind, o |-> o]
            /\ ret' = r.ret
            /\ model' = r.model
            /\ params' = r.params
            /\ UNCHANGED <<fixed_params, fix_log, files>>

----------------------------------------------------------------------------
(* The state after construction: the store holds Q components and the      *)
(* noise entry, every array filled with one placeholder value, and no name *)
(* is fixed.                                                               *)

Fills == {0, 1}

Placeholder(f) ==
    Store([q \in Comps |-> Component(ConstVec(f), ConstMat(f), ConstMat(f),
                                     ConstVec(f), ConstMat(f))],
          ConstVec(f))

Init ==
    /\ \E f \in Fills : params = Placeholder(f)
    /\ fixed_params = <<>>
    /\ fix_log = NoFix
    /\ call = NoCall
    /\ prev = NoCall
    /\ model = NoModel
    /\ channels = TheChannels
    /\ files = NoFiles
    /\ ret = NoRet
    /\ nops = 0

\* what prev remembers of a call: the method and, of an estimation, what
\* the estimator did
Brief(c) ==
    IF c.op = "estimate_params" THEN [op |-> c.op, est |-> c.est] ELSE [op |-> c.op]

\* one more call is made; prev remembers the call before it
\* (none of the methods assigns to the data set)
Step(limit) ==
    nops < limit /\ nops' = nops + 1 /\ prev' = Brief(call) /\ UNCHANGED channels

\* a call of a method that does not touch the file system
StepOff(limit) == Step(limit) /\ UNCHANGED files

Next ==
    \/ StepOff(MaxOps) /\ set_param
    \/ StepOff(MaxOps) /\ estimate_params
    \/ StepOff(MaxOps) /\ get_cross_params
    \/ StepOff(MaxOps) /\ get_params
    \/ StepOff(MaxOps) /\ get_param_across

Spec == Init /\ [][Next]_vars

----------------------------------------------------------------------------
(* MOSM.plot_correlations: the correlation-coefficient matrix.  A value    *)
(* [coef, exparg] stands for coef * exp(exparg); its coef is Unrep where   *)
(* the value is a sum this arithmetic cannot write down.                   *)

IsUnrep(x) == x.d = 0 /\ x.r = 0
EUnrep == [coef |-> Unrep, exparg |-> Zero]
EKnown(a) == ~IsUnrep(a.coef) /\ ~IsUnrep(a.exparg)

\* a value built from a coefficient and an exponent, either possibly Unrep
EMake(w, e) == IF IsUnrep(w) \/ IsUnrep(e) THEN EUnrep ELSE TimesExp(w, e)

EMul(a, b) ==
    IF ~EKnown(a) \/ ~EKnown(b) THEN EUnrep
    ELSE EMake(Mul(a.coef, b.coef), Add(a.exparg, b.exparg))

EDiv(a, b) ==
    IF ~EKnown(a) \/ ~EKnown(b) THEN EUnrep
    ELSE EMake(Div(a.coef, b.coef), Sub(a.exparg, b.exparg))

\* np.sqrt
ESqrt(a) ==
    IF ~EKnown(a) THEN EUnrep
    ELSE EMake(Sqrt(a.coef), Mul(Rat(1, 2), a.exparg))

EAdd(a, b) ==
    IF ~EKnown(a) \/ ~EKnown(b) THEN EUnrep
    ELSE IF IsNaN(a.coef) \/ IsNaN(b.coef) THEN EMake(NaN, Zero)
    ELSE IF a.exparg = b.exparg THEN EMake(Add(a.coef, b.coef), a.exparg)
    ELSE IF IsZero(a.coef) THEN b
    ELSE IF IsZero(b.coef) THEN a
    ELSE IF IsInf(a.coef) THEN a
    ELSE IF IsInf(b.coef) THEN b
    ELSE EUnrep

RECURSIVE ESumOver(_, _)
\* ndarray.sum() of the values f[k], k in S, in increasing order of k
ESumOver(f, S) ==
    IF S = {} THEN EMake(Zero, Zero)
    ELSE LET k == CHOOSE x \in S : \A y \in S : x >= y
         IN  EAdd(ESumOver(f, S \ {k}), f[k])

\* np.cos, for the angles at which it is 0, +-1/2 or +-1
Cos(x) ==
    IF IsUnrep(x) THEN Unrep
    ELSE IF ~IsFinite(x) THEN NaN
    ELSE IF IsZero(x) THEN One
    ELSE IF x.u = 1 /\ x.r = 1 /\ x.d \in {1, 2, 3, 4, 6}
         THEN (IF x.d = 1 THEN One
               ELSE IF x.d = 2 THEN Num(-1)
               ELSE IF x.d = 3 THEN Rat(-1, 2)
               ELSE IF x.d = 4 THEN Zero
               ELSE Rat(1, 2))
         ELSE Unrep

\* alpha = magn / np.sqrt(2 * np.pi * cov), in input dimension 0
Alpha(t, i, j, q) ==
    EDiv(t.magnitude[i, j, q],
         EMake(Sqrt(Mul(TwoPi, t.covariance[i, j, 0, q])), Zero))

\* np.diagonal(alpha.sum(2))[k]
AlphaDiagonal(t, k) == ESumOver([q \in Comps |-> Alpha(t, k, k, q)], Comps)

\* corr = np.exp(-0.5 * delay**2 * cov) * np.cos(delay * mean + phase)
Modulation(t, i, j, q) ==
    LET delay == t.delay[i, j, 0, q]
        angle == Add(Mul(delay, t.mean[i, j, 0, q]), t.phase[i, j, q])
    IN  EMul(EMake(One, Mul(Rat(-1, 2), Mul(Mul(delay, delay), t.covariance[i, j, 0, q]))),
             EMake(Cos(angle), Zero))

\* the entry before normalization: the diagonal filled with the alpha sums,
\* the rest with (alpha * corr).sum()
CorrRaw(t, i, j) ==
    IF i = j THEN AlphaDiagonal(t, i)
    ELSE ESumOver([q \in Comps |-> EMul(Alpha(t, i, j, q), Modulation(t, i, j, q))],
                  Comps)

\* the diagonal left as filled, the other entries normalized
CorrCoefDiagonalKept(t, i, j) ==
    IF i = j THEN CorrRaw(t, i, j)
    ELSE EDiv(CorrRaw(t, i, j),
              EMul(ESqrt(AlphaDiagonal(t, i)), ESqrt(AlphaDiagonal(t, j))))

\* corr_coef_matrix[i, j] /= np.sqrt(diag[i]) * np.sqrt(diag[j]), for every
\* i and j
CorrCoef(t, i, j) ==
    EDiv(CorrRaw(t, i, j),
         EMul(ESqrt(AlphaDiagonal(t, i)), ESqrt(AlphaDiagonal(t, j))))

CorrCoefMatrix(t) == [i \in Chans, j \in Chans |-> CorrCoef(t, i, j)]

plot_correlations ==
    /\ call' = [op |-> "plot_correlations"]
    /\ ret' = [kind |-> "corr", value |-> CorrCoefMatrix(GetCrossParams(params))]
    /\ UNCHANGED <<params, fixed_params, fix_log, model>>

\* plot_correlations as a function of the store.  Variances are multiples
\* of 1/(2 pi), means and phases multiples of 2 pi, the same in both input
\* dimensions; the two components differ in magnitude and phase.  Either
\* the means differ between the channels or the delays do.
OverTwoPi(v) == Norm(v, 1, -1, 1)
Turns(n, d) == Norm(n, d, 1, 1)
PerChannel(f) == [n \in Dims |-> [c \in Chans |-> f[c]]]

CorrStore(w, m, v, ph, dl) ==
    Store([q \in Comps |->
              Component([c \in Chans |-> IF q = 0 THEN Num(w[c]) ELSE One],
                        PerChannel([c \in Chans |-> m[c]]),
                        PerChannel([c \in Chans |-> OverTwoPi(v[c])]),
                        [c \in Chans |-> IF q = 0 THEN Turns(ph[c], 6) ELSE Zero],
                        PerChannel([c \in Chans |-> Num(dl[c])]))],
          ConstVec(1))

CorrVars == {0, 1, 4}
CorrPhases == {0, 1, 3}

InitCorr ==
    /\ \E v \in [Chans -> CorrVars], ph \in [Chans -> CorrPhases] :
          \/ \E w \in [Chans -> MagVals], m \in [Chans -> {0, 1}] :
                params = CorrStore(w, [c \in Chans |-> Turns(m[c], 1)], v, ph,
                                   [c \in Chans |-> 0])
          \/ \E m \in {0, 1}, dl \in [Chans -> {0, 1}] :
                params = CorrStore([c \in Chans |-> c + 1],
                                   [c \in Chans |-> Turns(m, 4)], v, ph, dl)
    /\ fixed_params = <<>>
    /\ fix_log = NoFix
    /\ call = NoCall
    /\ ret = NoRet
    /\ nops = 0
    /\ prev = NoCall
    /\ model = NoModel
    /\ channels = TheChannels
    /\ files = NoFiles

NextCorr == plot_correlations /\ UNCHANGED <<nops, prev, channels, files>>

SpecCorr == InitCorr /\ [][NextCorr]_vars

\* _to_kernel as a function of the data set: the channels drawn have up to
\* MaxLen samples each, any of them masked
Masks == UNION {[1 .. l -> BOOLEAN] : l \in 0 .. MaxLen}

InitKernel ==
    /\ params = Placeholder(0)
    /\ fixed_params = <<>>
    /\ fix_log = NoFix
    /\ call = NoCall
    /\ ret = NoRet
    /\ nops = 0
    /\ prev = NoCall
    /\ model = NoModel
    /\ files = NoFiles
    /\ \E m0 \in Masks, m1 \in Masks, base \in {0, 5} :
          channels = [c \in Chans |-> Channel(c, IF c = 0 THEN m0 ELSE m1, base)]

NextKernel == to_kernel /\ UNCHANGED <<nops, prev, channels, files>>

SpecKernel == InitKernel /\ [][NextKernel]_vars

\* the model after construction, in a directory that may hold a file of an
\* earlier session
InitFix ==
    /\ \E f \in Fills : params = Placeholder(f)
    /\ fixed_params = <<>>
    /\ fix_log = NoFix
    /\ call = NoCall
    /\ prev = NoCall
    /\ model = NoModel
    /\ channels = TheChannels
    /\ files \in {NoFiles, [NoFiles EXCEPT ![Saved("m")] = OldFile]}
    /\ ret = NoRet
    /\ nops = 0

NextFix ==
    \/ StepOff(MaxFixOps) /\ fix_params
    \/ StepOff(MaxFixOps) /\ unfix_params
    \/ StepOff(MaxFixOps) /\ build
    \/ Step(MaxFixOps) /\ predict
    \/ Step(MaxFixOps) /\ save
    \/ Step(MaxFixOps) /\ train

SpecFix == InitFix /\ [][NextFix]_vars

----------------------------------------------------------------------------
(* The DataSet container: self.channels is a list of Data objects, here    *)
(* the sequence of their names and contents.  Python's index i of a list   *)
(* is position i + 1 of the sequence.  Every Data object handed to the     *)
(* container is a new one.                                                 *)

DataNames == {"A", "B"}
Data(name, y) == [name |-> name, Y |-> y]
DataObjs == {Data(n, y) : n \in DataNames, y \in {1, 2}}

\* an argument of append or __setitem__: its type, the Data objects it
\* holds in order and, of a dict, their keys
Arg(type, vals, keys) == [type |-> type, vals |-> vals, keys |-> keys]

AppendArgs ==
    {Arg("Data", <<d>>, <<>>) : d \in DataObjs}
    \cup {Arg("DataSet", <<Data(n, 1)>>, <<>>) : n \in DataNames}
    \cup {Arg("DataSet", <<Data("A", 1), Data("B", 2)>>, <<>>),
          Arg("list", <<Data("A", 1), Data("A", 2)>>, <<>>),
          Arg("list", <<>>, <<>>),
          Arg("other", <<>>, <<>>)}
    \cup {Arg("dict", <<Data("A", 1)>>, <<k>>) : k \in DataNames}

SetArgs ==
    {Arg("Data", <<d>>, <<>>) : d \in DataObjs}
    \cup {Arg("DataSet", <<Data("B", 2)>>, <<>>),
          Arg("DataSet", <<Data("A", 1), Data("B", 2)>>, <<>>),
          Arg("other", <<>>, <<>>)}

\* val.name = key for the items of a dict
Renamed(arg) == [i \in 1 .. Len(arg.vals) |-> [arg.vals[i] EXCEPT !.name = arg.keys[i]]]

\* the outcome of append(arg) on the channel list chs
AppendChannels(chs, arg) ==
    IF arg.type \in {"Data", "DataSet", "list"}
    THEN [ret |-> Ok, channels |-> chs \o arg.vals]
    ELSE IF arg.type = "dict"
    THEN [ret |-> Ok, channels |-> chs \o Renamed(arg)]
    ELSE [ret |-> Raise("unknown data type in append to DataSet"), channels |-> chs]

append ==
    \E arg \in AppendArgs :
        LET r == AppendChannels(channels, arg)
        IN  /\ Len(channels) + Len(arg.vals) <= MaxChannels
            /\ call' = [op |-> "append", arg |-> arg]
            /\ ret' = r.ret
            /\ channels' = r.channels

\* an int is a valid index of a list of length n
InRange(i, n) == 0 - n <= i /\ i < n
\* the position list[i] reads or writes
Pos(i, n) == IF i < 0 THEN n + i + 1 ELSE i + 1

\* a key is an int or a str
IntKey(i) == [type |-> "int", i |-> i, s |-> ""]
StrKey(s) == [type |-> "str", i |-> 0, s |-> s]
\* isinstance(key, str)
IsStr(key) == key.type = "str"

\* the integers and the strings callers index with
Indices == {IntKey(i) : i \in (0 - MaxChannels - 1) .. MaxChannels}
LookupNames == {StrKey(s) : s \in DataNames \cup {"C"}}

\* list.__setitem__: self.channels[key] = val
ListSet(chs, key, val) ==
    IF IsStr(key) THEN [ret |-> Raise("TypeError"), channels |-> chs]
    ELSE IF ~InRange(key.i, Len(chs))
    THEN [ret |-> Raise("IndexError"), channels |-> chs]
    ELSE [ret |-> Ok, channels |-> [chs EXCEPT ![Pos(key.i, Len(chs))] = val]]

\* the outcome of __setitem__(key, arg)
SetItem(chs, key, arg) ==
    IF arg.type = "Data" THEN ListSet(chs, key, arg.vals[1])
    ELSE IF arg.type = "DataSet" /\ Len(arg.vals) = 1 THEN ListSet(chs, key, arg.vals[1])
    ELSE [ret |-> Raise("must set a data type of Data or a DataSet with a single channel"),
          channels |-> chs]

setitem ==
    \E key \in {IntKey(i) : i \in {-1, 0, 1, MaxChannels}} \cup {StrKey("A")},
       arg \in SetArgs :
        LET r == SetItem(channels, key, arg)
        IN  /\ call' = [op |-> "__setitem__", key |-> key, arg |-> arg]
            /\ ret' = r.ret
            /\ channels' = r.channels

\* get_names()
GetNames(chs) == [i \in 1 .. Len(chs) |-> chs[i].name]

\* the first position of a sequence that holds v (0 if none does)
FirstOf(l, v) ==
    IF \E i \in 1 .. Len(l) : l[i] = v
    THEN CHOOSE i \in 1 .. Len(l) : l[i] = v /\ \A j \in 1 .. (i - 1) : l[j] # v
    ELSE 0

Found(ch) == [kind |-> "channel", value |-> ch]

\* the outcome of __getitem__(key)
GetItem(chs, key) ==
    IF IsStr(key)
    THEN IF FirstOf(GetNames(chs), key.s) = 0 THEN Raise("ValueError")
         ELSE Found(chs[FirstOf(GetNames(chs), key.s)])
    ELSE IF ~InRange(key.i, Len(chs)) THEN Raise("IndexError")
    ELSE Found(chs[Pos(key.i, Len(chs))])

getitem ==
    \E key \in Indices \cup LookupNames :
        /\ call' = [op |-> "__getitem__", key |-> key]
        /\ ret' = GetItem(channels, key)
        /\ UNCHANGED channels

\* the outcome of get(index).  The message of the ValueError is built with
\* '%d' % index, which raises TypeError for a str.
Get(chs, index) ==
    IF ~IsStr(index)
    THEN IF index.i < Len(chs)
         THEN IF InRange(index.i, Len(chs)) THEN Found(chs[Pos(index.i, Len(chs))])
              ELSE Raise("IndexError")
         ELSE Raise("ValueError")
    ELSE IF FirstOf(GetNames(chs), index.s) # 0
         THEN Found(chs[FirstOf(GetNames(chs), index.s)])
         ELSE Raise("TypeError")

get ==
    \E index \in Indices \cup LookupNames :
        /\ call' = [op |-> "get", index |-> index]
        /\ ret' = Get(channels, index)
        /\ UNCHANGED channels

\* DataSet(): no channel yet
InitData ==
    /\ channels = <<>>
    /\ params = Placeholder(0)
    /\ fixed_params = <<>>
    /\ fix_log = NoFix
    /\ call = NoCall
    /\ prev = NoCall
    /\ model = NoModel
    /\ files = NoFiles
    /\ ret = NoRet
    /\ nops = 0

\* one more call is made on the DataSet
StepData ==
    /\ nops < MaxDataOps
    /\ nops' = nops + 1
    /\ prev' = [op |-> call.op]
    /\ UNCHANGED <<params, fixed_params, fix_log, model, files>>

NextData ==
    \/ StepData /\ append
    \/ StepData /\ setitem
    \/ StepData /\ getitem
    \/ StepData /\ get

SpecData == InitData /\ [][NextData]_vars

----------------------------------------------------------------------------
(* Predictions in the kernel's format.  A channel holds its prediction     *)
(* inputs X_pred[n][k], sample k in dimension n, and the predictions       *)
(* stored in it by name.                                                   *)

PredNames == {"MOSM", "SM"}

\* a channel with l prediction inputs and no prediction
PredChannel(c, l) ==
    [X_pred     |-> [n \in Dims |-> [k \in 1 .. l |-> 100 * c + 10 * k + n]],
     Y_mu_pred  |-> <<>>,
     Y_var_pred |-> <<>>]

\* d[name] = v for a dict d
DictSet(d, name, v) == [k \in DOMAIN d \cup {name} |-> IF k = name THEN v ELSE d[k]]

\* Data.set_prediction(name, mu, var)
SetPrediction(ch, name, mu, var) ==
    [ch EXCEPT !.Y_mu_pred = DictSet(@, name, mu), !.Y_var_pred = DictSet(@, name, var)]

\* a[i:i+n]
Slice(a, i, n) ==
    LET hi == IF i + n > Len(a) THEN Len(a) ELSE i + n
    IN  IF i >= hi THEN <<>> ELSE SubSeq(a, i + 1, hi)

\* np.squeeze of a segment: a single value loses its axis
Squeeze(a) == [ndim |-> IF Len(a) = 1 THEN 0 ELSE 1, vals |-> a]

RECURSIVE SumFrom(_, _)
\* sum(N): the entries of N from channel c on, added up
SumFrom(N, c) == IF c \notin DOMAIN N THEN 0 ELSE N[c] + SumFrom(N, c + 1)
SumOverInts(N) == SumFrom(N, 0)

\* N = [len(channel.X_pred[0]) for channel in self.channels]
PredCounts(chs) == [c \in Chans |-> Len(chs[c].X_pred[0])]

RECURSIVE SetSegmentsFromStart(_, _, _, _, _)
\* the loop with i left at 0
SetSegmentsFromStart(chs, name, mu, var, idx) ==
    IF idx \notin Chans THEN chs
    ELSE LET n == PredCounts(chs)[idx]
             next == [chs EXCEPT ![idx] = SetPrediction(@, name, Squeeze(Slice(mu, 0, n)),
                                                        Squeeze(Slice(var, 0, n)))]
         IN  SetSegmentsFromStart(next, name, mu, var, idx + 1)

RECURSIVE SetSegments(_, _, _, _, _, _)
\* the loop over idx, from channel idx and offset i on
SetSegments(chs, name, mu, var, idx, i) ==
    IF idx \notin Chans THEN chs
    ELSE LET n == PredCounts(chs)[idx]
             next == [chs EXCEPT ![idx] = SetPrediction(@, name, Squeeze(Slice(mu, i, n)),
                                                        Squeeze(Slice(var, i, n)))]
         IN  SetSegments(next, name, mu, var, idx + 1, i + n)

\* every channel given the values at the start of mu and var
FromKernelPredictionNoAdvance(chs, name, mu, var) ==
    LET N == PredCounts(chs)
    IN  IF Len(mu) # Len(var) \/ SumOverInts(N) # Len(mu)
        THEN [ret |-> Raise("ValueError"), channels |-> chs]
        ELSE [ret |-> Ok, channels |-> SetSegmentsFromStart(chs, name, mu, var, 0)]

\* the outcome of _from_kernel_prediction(name, mu, var)
FromKernelPrediction(chs, name, mu, var) ==
    LET N == PredCounts(chs)
    IN  IF Len(mu) # Len(var) \/ SumOverInts(N) # Len(mu)
        THEN [ret |-> Raise("ValueError"), channels |-> chs]
        ELSE [ret |-> Ok, channels |-> SetSegments(chs, name, mu, var, 0, 0)]

\* the flat arrays the engine hands back: l values that tell their position
Flat(base, l) == [k \in 1 .. l |-> base + k]

from_kernel_prediction ==
    \E name \in PredNames, lm \in 0 .. 2 * MaxLen, more \in {0, 1}, base \in {0, 50} :
        LET lv == lm + more
            mu == Flat(base, lm)
            var == Flat(base + 1000, lv)
            r == FromKernelPrediction(channels, name, mu, var)
        IN  /\ call' = [op |-> "_from_kernel_prediction", name |-> name,
                        mu |-> mu, var |-> var]
            /\ ret' = r.ret
            /\ channels' = r.channels
            /\ UNCHANGED <<params, fixed_params, fix_log, model>>

\* np.array([x.transformed for x in channel.X_pred]).T
PredRows(ch) ==
    [k \in 1 .. Len(ch.X_pred[0]) |-> [n \in Dims |-> ch.X_pred[n][k]]]

\* the outcome of _to_kernel_prediction: rows <<channel, x_0, x_1>>
ToKernelPrediction(chs) ==
    LET x == [c \in Chans |-> PredRows(chs[c])]
        tagged == [c \in Chans |->
                      [k \in 1 .. Len(x[c]) |-> <<c>> \o [n \in 1 .. Cardinality(Dims) |->
                                                           x[c][k][n - 1]]]]
    IN  [kind |-> "kernel_prediction", X |-> Concatenate(tagged, 0)]

to_kernel_prediction ==
    /\ call' = [op |-> "_to_kernel_prediction"]
    /\ ret' = ToKernelPrediction(channels)
    /\ UNCHANGED <<params, fixed_params, fix_log, model, channels>>

\* a data set whose channels have had their prediction inputs set
InitPred ==
    /\ \E l0 \in 0 .. MaxLen, l1 \in 0 .. MaxLen :
          channels = [c \in Chans |-> PredChannel(c, IF c = 0 THEN l0 ELSE l1)]
    /\ params = Placeholder(0)
    /\ fixed_params = <<>>
    /\ fix_log = NoFix
    /\ call = NoCall
    /\ prev = NoCall
    /\ model = NoModel
    /\ files = NoFiles
    /\ ret = NoRet
    /\ nops = 0

NextPred ==
    \/ from_kernel_prediction /\ UNCHANGED <<nops, prev, files>>
    \/ to_kernel_prediction /\ UNCHANGED <<nops, prev, files>>

SpecPred == InitPred /\ [][NextPred]_vars

----------------------------------------------------------------------------
(* Properties of set_param *)

ComponentError == Raise("component does not exist")
ParameterError == Raise("parameter name does not exist")

\* the names entry q of the store holds
EntryKeys(q) == IF q < Q THEN CompKeys ELSE NoiseKeys

\* the step stores val under (q, key) and touches nothing else
StoresOnly(q, key, val) ==
    /\ DOMAIN params' = DOMAIN params
    /\ \A q2 \in DOMAIN params : DOMAIN params'[q2] = DOMAIN params[q2]
    /\ params'[q][key] = val
    /\ \A q2 \in DOMAIN params : \A k \in DOMAIN params[q2] :
          (q2 # q \/ k # key) => params'[q2][k] = params[q2][k]

StoreTouched == \A f \in Fills : params # Placeholder(f)

\* C7 as stated: set_param fails with the component error for every q < 0
\* and every q >= Q, and leaves the store as it was.
C7_ComponentErrorOutsideComponents ==
    [][(call'.op = "set_param" /\ (call'.q < 0 \/ call'.q >= Q))
          => (ret' = ComponentError /\ params' = params)]_vars

\* C7, amended: the store has Q + 1 entries, the noise entry at index Q.
\* set_param fails with the component error exactly when q < 0 or q > Q, and
\* on that failure the store is left as it was.
C7_ComponentErrorOutsideStore ==
    [][call'.op = "set_param"
          => /\ ret' = ComponentError <=> (call'.q < 0 \/ call'.q > Q)
             /\ ret' = ComponentError => params' = params]_vars

\* set_param(Q + 1, ...) has failed with the component error on a store that
\* an earlier call had changed
C7_Witness ==
    /\ call.op = "set_param"
    /\ call.q = Q + 1
    /\ ret = ComponentError
    /\ StoreTouched

\* C8 as stated: for q in [0, Q), set_param fails with the parameter error
\* when key is none of the six names and leaves the store as it was; with one
\* of the six names it succeeds, stores val under (q, key) and changes
\* nothing else.
C8_SixRecognizedNames ==
    [][(call'.op = "set_param" /\ call'.q \in Comps)
          => IF call'.key \in KeyNames
             THEN ret' = Ok /\ StoresOnly(call'.q, call'.key, call'.val)
             ELSE ret' = ParameterError /\ params' = params]_vars

\* C8, amended: for q in [0, Q], set_param fails with the parameter error
\* when key is not a name held by entry q (magnitude, mean, variance, delay,
\* phase for q < Q; noise for q = Q) and leaves the store as it was; with a
\* name of entry q it succeeds, stores val under (q, key) and changes nothing
\* else.
C8_NamesOfEntry ==
    [][(call'.op = "set_param" /\ call'.q \in 0 .. Q)
          => IF call'.key \in EntryKeys(call'.q)
             THEN ret' = Ok /\ StoresOnly(call'.q, call'.key, call'.val)
             ELSE ret' = ParameterError /\ params' = params]_vars

\* set_param has stored a delay in one component while the same component's
\* mean, stored by an earlier call, is still there
C8_Witness ==
    /\ call.op = "set_param"
    /\ ret = Ok
    /\ call.q \in Comps
    /\ call.key = "delay"
    /\ params[call.q].delay = call.val
    /\ \A f \in Fills : params[call.q].mean # ConstMat(f)

----------------------------------------------------------------------------
(* Properties of estimate_params *)

\* what a successful estimation stores for component q
Estimated(mode, result, q) ==
    IF mode = "BNSE"
    THEN [magnitude |-> Normalize([c \in Chans |->
                            MeanOver([n \in Dims |-> result.amplitudes[c][n][q]], Dims)]),
          mean      |-> [n \in Dims |-> [c \in Chans |->
                            Mul(result.means[c][n][q], TwoPi)]],
          variance  |-> [n \in Dims |-> [c \in Chans |->
                            Mul(result.variances[c][n][q], Num(2))]]]
    ELSE [magnitude |-> Normalize([c \in Chans |->
                            MeanOver([n \in Dims |-> result[q].weight[n][c]], Dims)]),
          mean      |-> result[q].mean,
          variance  |-> [n \in Dims |-> [c \in Chans |->
                            Mul(result[q].scale[n][c], Num(2))]]]

EstimatedNoise == [c \in Chans |-> Div(VarOf(ChannelY[c]), Num(30))]

\* C9: a failing estimate_params leaves the store as it was; a succeeding
\* one has stored magnitude, mean and variance of all Q components and the
\* noise vector.
C9_AllOrNothing ==
    [][call'.op = "estimate_params"
          => IF ret' = Ok
             THEN /\ \A q \in Comps : \A k \in {"magnitude", "mean", "variance"} :
                        params'[q][k] = Estimated(call'.mode, call'.est.result, q)[k]
                  /\ params'[Q].noise = EstimatedNoise
             ELSE params' = params]_vars

\* estimate_params has failed in its estimator on a store that an earlier
\* call had changed
C9_Witness ==
    /\ call.op = "estimate_params"
    /\ call.mode \in {"BNSE", "SM"}
    /\ call.est.raises
    /\ ret.kind = "raise"
    /\ StoreTouched

\* estimate_params has succeeded and the store holds what it estimated
C9_Stored ==
    /\ call.op = "estimate_params"
    /\ ret = Ok
    /\ params[Q].noise = EstimatedNoise
    /\ params[0].mean = Estimated(call.mode, call.est.result, 0).mean

----------------------------------------------------------------------------
(* Properties of fix_params and unfix_params *)

\* C10: fix_params(key) directly followed by unfix_params(key) leaves the
\* set of fixed names, which the next build makes untrainable, as it was
\* before the fix, also when key was fixed already.
C10_FixUnfixRoundTrip ==
    (call.op = "unfix_params" /\ fix_log.round) =>
        /\ ret = Ok
        /\ Names(fixed_params) = Names(fix_log.before)

\* a name that was fixed already has been fixed again and unfixed
C10_Witness ==
    /\ fix_log.round
    /\ call.op = "unfix_params"
    /\ call.key = fix_log.key
    /\ call.key \in Names(fix_log.before)
    /\ call.key \in Names(fixed_params)

----------------------------------------------------------------------------
(* Membership of a name in the fixed names *)

\* C11: directly after fix_params(key) the name key is fixed, and directly
\* after a successful unfix_params(key) the name key is not fixed, however
\* often fix_params(key) was called before.
C11_ToggleMembership ==
    /\ call.op = "fix_params" => call.key \in Names(fixed_params)
    /\ (call.op = "unfix_params" /\ ret = Ok) => call.key \notin Names(fixed_params)

\* C12: fix_params with a name that is none of the six parameter names fails
\* with the parameter error and leaves the fixed names as they were.
C12_FixRejectsUnknownName ==
    (call.op = "fix_params" /\ call.key \notin KeyNames)
        => /\ ret = ParameterError
           /\ fixed_params = fix_log.before

----------------------------------------------------------------------------
(* Properties of build *)

\* the model holds the fixed names F: every name of F is untrainable in
\* each of the Q components and every other parameter of every term is
\* trainable
HoldsFixed(m, F) ==
    /\ m.built
    /\ \A q \in Comps : \A k \in CompKeys : m.trainable[q][k] <=> k \notin F
    /\ \A k \in NoiseKeys : m.trainable[Q][k] <=> k \notin F

\* no name is untrainable in one component and trainable in another
Uniform(m) ==
    m.built => \A k \in CompKeys : \A q1 \in Comps, q2 \in Comps :
                   m.trainable[q1][k] = m.trainable[q2][k]

C13_SuccessfulBuilds ==
    /\ Uniform(model)
    /\ (call.op = "build" /\ ret = Ok) => HoldsFixed(model, Names(fixed_params))

\* a build has succeeded with a name fixed
C13_BuiltWithFixedName ==
    call.op = "build" /\ ret = Ok /\ fixed_params # <<>>

----------------------------------------------------------------------------
(* Normalization of the magnitudes *)

\* the raw magnitude an estimation found for component q, per channel
RawMagnitude(mode, result, q) ==
    IF mode = "BNSE"
    THEN [c \in Chans |-> MeanOver([n \in Dims |-> result.amplitudes[c][n][q]], Dims)]
    ELSE [c \in Chans |-> MeanOver([n \in Dims |-> result[q].weight[n][c]], Dims)]

IsRead(op) == op \in {"get_params", "_get_param_across", "get_cross_params"}

\* C14: a successful estimate_params stores, for each component q and
\* channel c, sqrt(raw[c] / mean over channels of raw) of the raw estimates
\* of that very call, whatever the store held before; a read leaves the
\* store as it is and hands out the stored magnitudes as they are.
C14_NormalizedOnce ==
    [][/\ (call'.op = "estimate_params" /\ ret' = Ok)
             => \A q \in Comps : \A c \in Chans :
                   LET raw == RawMagnitude(call'.mode, call'.est.result, q)
                   IN  params'[q].magnitude[c] =
                           Sqrt(Div(raw[c], MeanOver(raw, Chans)))
       /\ IsRead(call'.op) => params' = params
       /\ call'.op = "get_params"
             => \A q \in Comps : ret'.value[q].magnitude = params[q].magnitude
       /\ (call'.op = "_get_param_across" /\ call'.name = "magnitude")
             => \A q \in Comps : ret'.value[q] = params[q].magnitude
       /\ call'.op = "get_cross_params"
             => \A q \in Comps : \A i \in Chans :
                   (\A n \in Dims : IsFinite(Var(q, i, n)) /\ ~IsZero(Var(q, i, n)))
                      => ret'.value.magnitude[i, i, q].coef =
                             Mul(params[q].magnitude[i], params[q].magnitude[i])
      ]_vars

\* a second estimate_params, directly after a first with other raw
\* estimates, has stored the normalized magnitudes of its own unequal raw
\* estimates
C14_Witness ==
    /\ prev.op = "estimate_params"
    /\ call.op = "estimate_params"
    /\ ret = Ok
    /\ ~prev.est.raises
    /\ prev.est # call.est
    /\ LET raw == RawMagnitude(call.mode, call.est.result, 0)
       IN  /\ raw[0] # raw[1]
           /\ IsFinite(params[0].magnitude[0])
           /\ params[0].magnitude[0] = Sqrt(Div(raw[0], MeanOver(raw, Chans)))

----------------------------------------------------------------------------
(* Freshness and purity of the derivation *)

----------------------------------------------------------------------------
(* The noise vector *)

RECURSIVE SumSeq(_)
SumSeq(y) == IF y = <<>> THEN 0 ELSE Head(y) + SumSeq(Tail(y))

Squares(y) == [k \in 1 .. Len(y) |-> y[k] * y[k]]

\* the variance of the outputs y: the mean of the squares less the square
\* of the mean
OutputVariance(y) ==
    Rat(Len(y) * SumSeq(Squares(y)) - SumSeq(y) * SumSeq(y), Len(y) * Len(y))

----------------------------------------------------------------------------
(* Properties of _to_kernel *)

Valid(c, k) == k \in 1 .. Len(channels[c].mask) /\ channels[c].mask[k]

\* the number of valid samples that come no later than sample k of channel
\* c, channels in increasing order and samples in their order
Rank(c, k) ==
    Cardinality({ck \in Chans \X (1 .. MaxLen + 1) :
                    /\ Valid(ck[1], ck[2])
                    /\ ck[1] < c \/ (ck[1] = c /\ ck[2] <= k)})

ValidCount == Cardinality({ck \in Chans \X (1 .. MaxLen + 1) : Valid(ck[1], ck[2])})

\* C18: X holds one row per valid sample of every channel and Y as many;
\* the row of a valid sample stands after the rows of all valid samples of
\* lower channels and of the earlier valid samples of its own channel; it
\* holds the channel index in column 0 and the sample's input values in the
\* other columns, and the same row of Y holds the sample's output.
C18_KernelEncoding ==
    ret.kind = "kernel" =>
        /\ Len(ret.X) = ValidCount
        /\ Len(ret.Y) = ValidCount
        /\ \A c \in Chans : \A k \in 1 .. Len(channels[c].mask) :
              Valid(c, k) =>
                 /\ ret.X[Rank(c, k)] =
                       <<c, channels[c].X[0][k], channels[c].X[1][k]>>
                 /\ ret.Y[Rank(c, k)] = <<channels[c].Y[k]>>

\* both channels have a masked sample before a valid one, and the encoding
\* holds the valid samples of both
C18_Witness ==
    /\ ret.kind = "kernel"
    /\ \A c \in Chans : \E k1 \in 1 .. MaxLen, k2 \in 1 .. MaxLen :
          k1 < k2 /\ k2 <= Len(channels[c].mask) /\ ~Valid(c, k1) /\ Valid(c, k2)
    /\ Len(ret.X) >= 3

----------------------------------------------------------------------------
(* The cross magnitude of channels with equal means *)

EqualMeans(q, i, j) == \A n \in Dims : FEq(Mean(q, i, n), Mean(q, j, n))

\* C20: for a component q and channels i, j whose means agree in every
\* input dimension and whose variances have a non-zero sum in every input
\* dimension, the cross magnitude is magnitude[q,i] * magnitude[q,j], the
\* exponential factor being exp(0) = 1.
C20_EqualMeansMagnitude ==
    Returned =>
        \A q \in Comps : \A i \in Chans, j \in Chans :
            (EqualMeans(q, i, j) /\ \A n \in Dims : SvNonZero(q, i, j, n))
               => T.magnitude[i, j, q] =
                     [coef   |-> Mul(params[q].magnitude[i], params[q].magnitude[j]),
                      exparg |-> Zero]

\* two different channels with equal non-zero means, unequal variances and
\* the magnitudes 1 and 2 have the cross magnitude 2
C20_Witness ==
    /\ Returned
    /\ \E q \in Comps : \E i \in Chans, j \in Chans :
          /\ i # j
          /\ EqualMeans(q, i, j)
          /\ \A n \in Dims : SvNonZero(q, i, j, n) /\ ~IsZero(Mean(q, i, n))
          /\ \E n \in Dims : Var(q, i, n) # Var(q, j, n)
          /\ params[q].magnitude[i] = Num(1)
          /\ params[q].magnitude[j] = Num(2)
          /\ T.magnitude[i, j, q] = [coef |-> Num(2), exparg |-> Zero]

----------------------------------------------------------------------------
(* Properties of plot_correlations *)

Corr == ret.value
\* the tensor the matrix is derived from
CT == GetCrossParams(params)
\* the sum over the components of alpha[k, k, q]
DiagOf(k) == ESumOver([q \in Comps |-> Alpha(CT, k, k, q)], Comps)
\* the sum over the components of alpha[i, j, q] times the modulated cosine
ModulatedSum(i, j) ==
    ESumOver([q \in Comps |-> EMul(Alpha(CT, i, j, q), Modulation(CT, i, j, q))], Comps)
EOne == [coef |-> One, exparg |-> Zero]
Positive(a) == EKnown(a) /\ IsFinite(a.coef) /\ a.coef.n > 0

\* the entries off the diagonal: the modulated sum over the square root of
\* the product of the two diagonal sums
OffDiagonalNormalized ==
    \A i \in Chans, j \in Chans :
        (i # j /\ EKnown(Corr[i, j]))
           => Corr[i, j] = EDiv(ModulatedSum(i, j), ESqrt(EMul(DiagOf(i), DiagOf(j))))

\* C19 as stated: the diagonal entry [i,i] is the sum over q of
\* alpha[i,i,q], and the entry [i,j] off the diagonal is the sum over q of
\* alpha[i,j,q] times the modulated cosine, divided by sqrt(diag_i * diag_j).
C19_DiagonalIsAlphaSum ==
    ret.kind = "corr" =>
        /\ \A i \in Chans : Corr[i, i] = DiagOf(i)
        /\ OffDiagonalNormalized

\* C19, amended: the diagonal entry [i,i] is the sum diag_i over q of
\* alpha[i,i,q] divided, like every other entry, by sqrt(diag_i) *
\* sqrt(diag_i): it is 1 whenever diag_i is positive and finite.  The
\* entries off the diagonal are as stated.
C19_DiagonalIsNormalized ==
    ret.kind = "corr" =>
        /\ \A i \in Chans :
              /\ Corr[i, i] = EDiv(DiagOf(i), EMul(ESqrt(DiagOf(i)), ESqrt(DiagOf(i))))
              /\ Positive(DiagOf(i)) => Corr[i, i] = EOne
        /\ OffDiagonalNormalized

\* a matrix with unequal diagonal sums, neither of them 1, a unit diagonal
\* and an entry off the diagonal that is a non-zero multiple of an
\* exponential
C19_Witness ==
    /\ ret.kind = "corr"
    /\ Positive(DiagOf(0)) /\ Positive(DiagOf(1))
    /\ DiagOf(0) # DiagOf(1)
    /\ DiagOf(0) # EOne /\ DiagOf(1) # EOne
    /\ Corr[0, 0] = EOne /\ Corr[1, 1] = EOne
    /\ EKnown(Corr[0, 1])
    /\ IsFinite(Corr[0, 1].coef) /\ ~IsZero(Corr[0, 1].coef)
    /\ ~IsZero(Corr[0, 1].exparg)

\* an entry off the diagonal whose cosine factor is -1/2
C19_HalfCosine ==
    /\ ret.kind = "corr"
    /\ EKnown(Corr[0, 1]) /\ IsFinite(Corr[0, 1].coef)
    /\ Modulation(CT, 0, 1, 0).coef = Rat(-1, 2)

\* the entries off the diagonal that this arithmetic can write down
C19_Known ==
    ret.kind = "corr" /\ EKnown(Corr[0, 1]) /\ EKnown(Corr[1, 0])

----------------------------------------------------------------------------
(* estimate_params with a mode it does not know *)

\* C23: estimate_params called with a mode other than 'BNSE' and 'SM' raises
\* and leaves every entry of the store as it was, the noise entry included.
C23_UnknownModeRaises ==
    [][(call'.op = "estimate_params" /\ call'.mode \notin {"BNSE", "SM"})
          => /\ ret'.kind = "raise"
             /\ params' = params
             /\ params'[Q].noise = params[Q].noise]_vars

\* estimate_params('LS') has raised on a store whose noise entry is not what
\* the estimation would have written
C23_Witness ==
    /\ call.op = "estimate_params"
    /\ call.mode = "LS"
    /\ ret.kind = "raise"
    /\ prev.op = "set_param"
    /\ params[Q].noise # EstimatedNoise

----------------------------------------------------------------------------
(* Training and the fixed names *)

\* the entries of the store
Entries == {<<q, k>> \in (0 .. Q) \X KeyNames : k \in EntryKeys(q)}

C24_OnlyTrainablesWritten ==
    [][call'.op = "train"
          => \A e \in Entries :
                params'[e[1]][e[2]] # params[e[1]][e[2]]
                   => /\ ret' = Ok
                      /\ model'.trainable[e[1]][e[2]]
                      /\ e[2] \notin Names(fixed_params)]_vars

\* train has optimized and the store holds the optimizer's values
C24_Trained ==
    /\ call.op = "train"
    /\ ret = Ok
    /\ params[0].mean = ConstMat(call.o)
    /\ params[Q].noise = ConstVec(call.o)

\* train has optimized with a name fixed
C24_TrainedWithFixedName ==
    call.op = "train" /\ ret = Ok /\ fixed_params # <<>>

----------------------------------------------------------------------------
(* predict and save before a build *)

\* C25: while no build has produced a model, predict and save raise and
\* leave the store, the fixed names, the model and the files as they are;
\* a build of an unknown kind leaves the model as it was, so it does not
\* make them usable.
C25_UsableOnlyAfterBuild ==
    [][/\ (call'.op \in {"predict", "save"} /\ ~model.built)
             => /\ ret'.kind = "raise"
                /\ params' = params
                /\ fixed_params' = fixed_params
                /\ model' = model
                /\ files' = files
       /\ (call'.op = "build" /\ call'.kind \notin Kinds)
             => /\ ret'.kind = "raise"
                /\ model' = model]_vars

\* save('m') has raised directly after a build that left no model, in a
\* directory that holds m.mogptk
C25_Witness ==
    /\ prev.op = "build"
    /\ call.op = "save"
    /\ call.filename = <<"m">>
    /\ ret.kind = "raise"
    /\ ~model.built
    /\ files[Saved("m")] = OldFile

\* predict has raised directly after a build that left no model
C25_PredictRefused ==
    prev.op = "build" /\ call.op = "predict" /\ ret.kind = "raise" /\ ~model.built

\* save has written a file that was not there
C25_SavedAfterBuild ==
    /\ call.op = "save" /\ ret = Ok
    /\ files[Saved("n")].kind = "saved"

----------------------------------------------------------------------------
(* Channels of a DataSet *)

\* C21: no two channels of a DataSet have the same name.
C21_UniqueNames ==
    \A i, j \in 1 .. Len(channels) :
        i # j => channels[i].name # channels[j].name

\* the channel an int or a str designates: a position from the front, or
\* the name of a channel
Designates(chs, index) ==
    IF IsStr(index) THEN \E i \in 1 .. Len(chs) : chs[i].name = index.s
    ELSE 0 <= index.i /\ index.i < Len(chs)

\* C22: get(index) returns the channel at position index, or the channel of
\* that name, and raises ValueError for every int and str that designates
\* no channel.
C22_GetOrValueError ==
    call.op = "get"
       => IF Designates(channels, call.index)
          THEN /\ ret.kind = "channel"
               /\ IF IsStr(call.index) THEN ret.value.name = call.index.s
                  ELSE ret.value = channels[call.index.i + 1]
          ELSE ret = Raise("ValueError")

\* the part of it that the code keeps: an existing channel is returned, an
\* int past the end raises ValueError, and get leaves the channels alone
C22_ExistingChannels ==
    [][call'.op = "get"
          => /\ channels' = channels
             /\ Designates(channels, call'.index)
                   => /\ ret'.kind = "channel"
                      /\ IF IsStr(call'.index) THEN ret'.value.name = call'.index.s
                         ELSE ret'.value = channels[call'.index.i + 1]
             /\ (~IsStr(call'.index) /\ call'.index.i >= Len(channels))
                   => ret' = Raise("ValueError")]_vars

----------------------------------------------------------------------------
(* Predictions split by channel *)

\* the number of prediction inputs of channel c, and of the channels before it
NPred(chs, c) == Len(chs[c].X_pred[0])
Before(chs, c) == IF c = 0 THEN 0 ELSE NPred(chs, 0)

\* the values a stored prediction holds, in order
ValuesOf(p) == p.vals

\* C26: _from_kernel_prediction gives channel k the N[k] values of mu and of
\* var that start at offset N[0] + ... + N[k-1], so the segments follow one
\* another in channel order and cover mu; when len(mu) # len(var) or
\* sum(N) # len(mu) it raises ValueError and no channel is changed.
C26_SegmentsByChannel ==
    [][call'.op = "_from_kernel_prediction"
          => LET mu == call'.mu
                 var == call'.var
                 name == call'.name
                 total == NPred(channels, 0) + NPred(channels, 1)
             IN  IF Len(mu) # Len(var) \/ total # Len(mu)
                 THEN ret' = Raise("ValueError") /\ channels' = channels
                 ELSE /\ ret' = Ok
                      /\ \A c \in Chans :
                            /\ channels'[c].X_pred = channels[c].X_pred
                            /\ Len(ValuesOf(channels'[c].Y_mu_pred[name])) = NPred(channels, c)
                            /\ Len(ValuesOf(channels'[c].Y_var_pred[name])) = NPred(channels, c)
                            /\ \A k \in 1 .. NPred(channels, c) :
                                  /\ ValuesOf(channels'[c].Y_mu_pred[name])[k]
                                        = mu[Before(channels, c) + k]
                                  /\ ValuesOf(channels'[c].Y_var_pred[name])[k]
                                        = var[Before(channels, c) + k]
                      /\ Before(channels, 1) + NPred(channels, 1) = Len(mu)]_vars

\* a prediction has been split between a channel of one input and a channel
\* of two
C26_Witness ==
    /\ call.op = "_from_kernel_prediction"
    /\ ret = Ok
    /\ NPred(channels, 0) = 1 /\ NPred(channels, 1) = 2
    /\ ValuesOf(channels[1].Y_mu_pred[call.name]) = <<call.mu[2], call.mu[3]>>

\* a call has raised on channels that hold a prediction: once because var is
\* longer than mu, once because mu has not one value for every input
C26_RaisedOnLengths ==
    /\ call.op = "_from_kernel_prediction"
    /\ ret = Raise("ValueError")
    /\ "MOSM" \in DOMAIN channels[0].Y_mu_pred
    /\ Len(call.mu) # Len(call.var)
    /\ NPred(channels, 0) + NPred(channels, 1) = Len(call.mu)

C26_RaisedOnCount ==
    /\ call.op = "_from_kernel_prediction"
    /\ ret = Raise("ValueError")
    /\ "MOSM" \in DOMAIN channels[0].Y_mu_pred
    /\ Len(call.mu) = Len(call.var)
    /\ NPred(channels, 0) + NPred(channels, 1) # Len(call.mu)

====
